---- MODULE Spec2Model ----
(***************************************************************************)
(* A model of CityScape's NYCGuide (query_data.py): the session object     *)
(* that holds the last recommendation, the learned cuisine preference and  *)
(* the saved plan, together with the two JSON files it persists to.        *)
(*                                                                         *)
(* Python values are represented as follows.  Text is a TLA+ string;       *)
(* None is the empty tuple and a present value v is <<v>>; a dict is a     *)
(* function from its keys; a file is a record [kind, ...] whose kind says  *)
(* what open()/json.load() does with it.  The completion service, the      *)
(* retriever, the clock and the file system are the environment: every     *)
(* method is an operator that yields the set of outcomes the environment   *)
(* allows, each outcome holding the new object state, the value returned   *)
(* (or the fact that an exception left the method) and the log of the      *)
(* external calls made on the way.                                         *)
(***************************************************************************)
EXTENDS Integers, Sequences, FiniteSets, TLC

VARIABLES
    last_response,        \* self.last_response: None or <<text>>
    last_context,         \* self.last_context: None or <<text>>
    last_classification,  \* self.last_classification: None or <<dict>>
    plan,                 \* self.plan: [venues |-> sequence of entries]
    preferences,          \* self.preferences: [cuisine |-> None or <<text>>]
    prefs_file,           \* content of PREFERENCES_FILE
    plan_file,            \* content of PLAN_FILE
    alive,                \* an NYCGuide instance exists (its constructor returned)
    call,                 \* the last call made on the instance and what it did
    peer,                 \* the fields of a second instance on the same files, or None
    confirmed             \* the entries an "Added ..." message was returned for,
                          \* kept while two instances share the files

vars == <<last_response, last_context, last_classification, plan, preferences,
          prefs_file, plan_file, alive, call, peer, confirmed>>

-----------------------------------------------------------------------------
(* Python values *)

None == <<>>

Some(v) == <<v>>

\* bool(x) of an Optional[str]: None and "" are both falsy.
Truthy(o) == o # None /\ o[1] # ""

ToLower ==
    ("A" :> "a") @@ ("B" :> "b") @@ ("C" :> "c") @@ ("D" :> "d") @@ ("E" :> "e") @@
    ("F" :> "f") @@ ("G" :> "g") @@ ("H" :> "h") @@ ("I" :> "i") @@ ("J" :> "j") @@
    ("K" :> "k") @@ ("L" :> "l") @@ ("M" :> "m") @@ ("N" :> "n") @@ ("O" :> "o") @@
    ("P" :> "p") @@ ("Q" :> "q") @@ ("R" :> "r") @@ ("S" :> "s") @@ ("T" :> "t") @@
    ("U" :> "u") @@ ("V" :> "v") @@ ("W" :> "w") @@ ("X" :> "x") @@ ("Y" :> "y") @@
    ("Z" :> "z")

RECURSIVE Lower(_)
\* str.lower()
Lower(s) ==
    IF s = "" THEN ""
    ELSE LET c == SubSeq(s, 1, 1)
         IN (IF c \in DOMAIN ToLower THEN ToLower[c] ELSE c) \o Lower(SubSeq(s, 2, Len(s)))

Whitespace == {" ", "\t", "\n", "\r"}

RECURSIVE LStrip(_)
LStrip(s) ==
    IF s # "" /\ SubSeq(s, 1, 1) \in Whitespace THEN LStrip(SubSeq(s, 2, Len(s))) ELSE s

RECURSIVE RStrip(_)
RStrip(s) ==
    IF s # "" /\ SubSeq(s, Len(s), Len(s)) \in Whitespace
    THEN RStrip(SubSeq(s, 1, Len(s) - 1)) ELSE s

\* str.strip()
Strip(s) == LStrip(RStrip(s))

\* sub in s
Contains(s, sub) ==
    \E i \in 1..(Len(s) - Len(sub) + 1) : SubSeq(s, i, i + Len(sub) - 1) = sub

\* s.startswith(prefix)
StartsWith(s, prefix) == Len(s) >= Len(prefix) /\ SubSeq(s, 1, Len(prefix)) = prefix

\* d.get(key, default) of a dict with text values
Get(d, key, default) == IF key \in DOMAIN d THEN d[key] ELSE default

\* {**d, key: value}: the later key wins
With(d, key, value) ==
    [k \in DOMAIN d \cup {key} |-> IF k = key THEN value ELSE d[k]]

EmptyDict == [k \in {} |-> ""]

-----------------------------------------------------------------------------
(* The two persisted files *)

\* open(..., 'r') raises FileNotFoundError
MissingFile == [kind |-> "missing"]

\* json.load raises JSONDecodeError: foreign text, or what a write that
\* failed after open(..., 'w') truncated the file leaves behind
CorruptFile == [kind |-> "corrupt"]

\* valid JSON that is not an object with a "venues" member
OtherJsonFile == [kind |-> "other"]

\* json.dump(self.preferences, f)
DumpPreferences(p) == [kind |-> "json", cuisine |-> p.cuisine]

\* json.dump(self.plan, indent=2, fp=f)
DumpPlan(p) == [kind |-> "json", venues |-> p.venues]

\* What a failed write leaves in the file: open() itself failed and the file
\* is untouched, or the write failed after open() truncated it.
FailedWrite(old) == {old, CorruptFile}

-----------------------------------------------------------------------------
(* Outcomes of a method *)

\* One external call: ev names it, arg holds the text handed to it.
Event(ev, arg) == [ev |-> ev, arg |-> arg]

\* The method returned v in object state s.
Return(s, v, log) == [s |-> s, raised |-> FALSE, ret |-> Some(v), log |-> log]

\* An exception left the method in object state s.
Raise(s, log) == [s |-> s, raised |-> TRUE, ret |-> None, log |-> log]

-----------------------------------------------------------------------------
(* Persistence: load_preferences, save_preferences, load_plan, save_plan *)

EmptyPlan == [venues |-> <<>>]

DefaultPreferences == [cuisine |-> None]

\* save_preferences: the outcomes are [s, ok]; ok is FALSE when open() or
\* the write raised OSError.
save_preferences(s) ==
    {[s |-> [s EXCEPT !.prefs_file = DumpPreferences(s.preferences)], ok |-> TRUE]}
    \cup {[s |-> [s EXCEPT !.prefs_file = f], ok |-> FALSE] : f \in FailedWrite(s.prefs_file)}

\* save_plan keeping the entries of the file that the plan does not hold
save_plan_Merging(s) ==
    LET old == IF s.plan_file.kind = "json" THEN s.plan_file.venues ELSE <<>>
        held(e) == \E i \in 1..Len(s.plan.venues) : s.plan.venues[i] = e
        kept == SelectSeq(old, LAMBDA e : ~held(e))
    IN {[s |-> [s EXCEPT !.plan_file = [kind |-> "json", venues |-> kept \o s.plan.venues]],
         ok |-> TRUE]}
       \cup {[s |-> [s EXCEPT !.plan_file = f], ok |-> FALSE] : f \in FailedWrite(s.plan_file)}

save_plan(s) ==
    {[s |-> [s EXCEPT !.plan_file = DumpPlan(s.plan)], ok |-> TRUE]}
    \cup {[s |-> [s EXCEPT !.plan_file = f], ok |-> FALSE] : f \in FailedWrite(s.plan_file)}

load_preferences(s) ==
    IF s.prefs_file.kind = "json"
    THEN {[s |-> [s EXCEPT !.preferences = [cuisine |-> s.prefs_file.cuisine]], ok |-> TRUE]}
    ELSE save_preferences([s EXCEPT !.preferences = DefaultPreferences])

load_plan(s) ==
    CASE s.plan_file.kind = "json" ->
            {[s |-> [s EXCEPT !.plan = [venues |-> s.plan_file.venues]], ok |-> TRUE]}
      [] s.plan_file.kind = "other" ->
            {[s |-> [s EXCEPT !.plan = EmptyPlan], ok |-> TRUE]}
      [] OTHER -> save_plan([s EXCEPT !.plan = EmptyPlan])

\* NYCGuide.__init__ on the files pf (preferences) and lf (plan): the
\* outcomes are [s, ok]; ok is FALSE when the constructor raised.
NewGuide(pf, lf) ==
    LET s0 == [last_response |-> None, last_context |-> None,
               last_classification |-> None, plan |-> EmptyPlan,
               preferences |-> DefaultPreferences, prefs_file |-> pf, plan_file |-> lf]
    IN UNION { IF p.ok THEN load_plan(p.s) ELSE {p} : p \in load_preferences(s0) }

-----------------------------------------------------------------------------
(* The environment: what the services and the clock may answer *)

\* response.content of the extraction prompt
ExtractionResponses ==
    { "Name: Katz\nContext: stale",
      "name : KATZ",
      "Venue Name: Joe" }

\* The number of distinct readings of the clock
MaxTimes == 1

\* datetime.now().isoformat()
Times == { "2024-05-01T10:0" \o ToString(i) \o ":00" : i \in 1..MaxTimes }

\* response.content of the classification prompt
ClassifierResponses ==
    { "Category: Food and Dining\nIntent: eat\nKey Terms: quick bite\nIs Preference: no\nPreference Type: none\nPreference Value: none\nIs Generic Food Question: Yes",
      "Category: Food and Dining\nIntent: state a taste\nIs Preference: Yes\nPreference Type: Cuisine\nPreference Value: Mexican\nIs Generic Food Question: no",
      "Category: Details/Information\nIntent: details\nIs Preference: no",
      "" }

\* The knowledge base ranked against a query: (page_content, relevance in
\* tenths), best first.
Rankings ==
    { <<>>,
      <<[page_content |-> "P2", score |-> 7], [page_content |-> "P1", score |-> 7],
        [page_content |-> "P3", score |-> 5], [page_content |-> "P4", score |-> 2],
        [page_content |-> "P5", score |-> 1]>>,
      <<[page_content |-> "P1", score |-> 6]>> }

\* response.content of the recommendation and follow-up prompts
AnswerTexts == { "Try Katz.", "" }

\* What a caller may hand to get_recommendations, handle_follow_up and
\* is_follow_up_question
Queries ==
    { "add this to my plan",
      "Add it to my plan",
      "please SAVE THIS",
      "I like Mexican food",
      "Where can I grab a quick bite?" }

\* What the user may type at main's prompt
Inputs == {"Add it to my plan", "I like Mexican food", "add to plan", " Show Plan ", "exit"}

-----------------------------------------------------------------------------
(* extract_venue_info and add_to_plan *)

\* The index of the first occurrence of the character c in s (c occurs in s)
Find(s, c) ==
    CHOOSE i \in 1..Len(s) :
        SubSeq(s, i, i) = c /\ \A j \in 1..(i - 1) : SubSeq(s, j, j) # c

RECURSIVE Split(_, _)
\* s.split(sep) for a one-character sep
Split(s, sep) ==
    IF Contains(s, sep)
    THEN <<SubSeq(s, 1, Find(s, sep) - 1)>> \o Split(SubSeq(s, Find(s, sep) + 1, Len(s)), sep)
    ELSE <<s>>

RECURSIVE ParseInfo(_, _)
\* The loop of extract_venue_info over the lines of the response
ParseInfo(lines, info) ==
    IF lines = <<>> THEN info
    ELSE LET line == Head(lines)
             i == Find(line, ":")
         IN ParseInfo(Tail(lines),
                IF Contains(line, ":")
                THEN With(info, Lower(Strip(SubSeq(line, 1, i - 1))),
                          Strip(SubSeq(line, i + 1, Len(line))))
                ELSE info)

\* extract_venue_info, given the completion's response.content
extract_venue_info(content) == ParseInfo(Split(content, "\n"), EmptyDict)

\* extract_venue_info on each answer of the completion service, computed once
VenueInfos == [r \in ExtractionResponses |-> extract_venue_info(r)]

NoVenueMsg == "No venue to add to plan. Please ask about a place first."

AddApologyMsg ==
    "Sorry, I couldn't add this place to your plan. Please try asking about the venue again."

AlreadyMsg(venue_info) == Get(venue_info, "name", "This venue") \o " is already in your plan!"

AddedMsg(venue_info) == "Added " \o Get(venue_info, "name", "the venue") \o " to your NYC plan!"

\* InPlan comparing the names as they are written
InPlan_CaseSensitive(venues, venue_info) ==
    \E i \in 1..Len(venues) : Get(venues[i], "name", "") = Get(venue_info, "name", "")

\* The any(...) of add_to_plan
InPlan(venues, venue_info) ==
    \E i \in 1..Len(venues) :
        Lower(Get(venues[i], "name", "")) = Lower(Get(venue_info, "name", ""))

\* A venue_entry in which the extracted fields come last and so win
VenueEntry_ExtractedWins(venue_info, now, context) ==
    LET base == With(With(EmptyDict, "added_at", now), "context", context)
    IN [k \in DOMAIN base \cup DOMAIN venue_info |->
           IF k \in DOMAIN venue_info THEN venue_info[k] ELSE base[k]]

\* The venue_entry dict literal of add_to_plan
VenueEntry(venue_info, now, context) ==
    With(With(venue_info, "added_at", now), "context", context)

\* add_to_plan from the point where extract_venue_info has returned
AddExtracted(s, venue_info, log) ==
    IF InPlan(s.plan.venues, venue_info)
    THEN {Return(s, AlreadyMsg(venue_info), log)}
    ELSE UNION {
            LET s1 == [s EXCEPT !.plan.venues =
                           Append(@, VenueEntry(venue_info, now, s.last_context[1]))]
            IN { IF w.ok
                 THEN Return(w.s, AddedMsg(venue_info), Append(log, Event("save_plan", <<"ok">>)))
                 ELSE Return(w.s, AddApologyMsg, Append(log, Event("save_plan", <<"OSError">>)))
                 : w \in save_plan(s1) }
            : now \in Times }

add_to_plan(s, log) ==
    LET log0 == Append(log, Event("add_to_plan", <<>>))
    IN IF ~Truthy(s.last_context)
       THEN {Return(s, NoVenueMsg, log0)}
       ELSE LET log1 == Append(log0, Event("extract", s.last_context))
            IN {Return(s, AddApologyMsg, log1)}
               \cup UNION { AddExtracted(s, VenueInfos[r], Append(log1, Event("extracted", <<r>>)))
                            : r \in ExtractionResponses }

-----------------------------------------------------------------------------
(* classify_query *)

RECURSIVE RemoveAll(_, _)
\* s.replace(sub, '')
RemoveAll(s, sub) ==
    IF Len(s) < Len(sub) THEN s
    ELSE IF StartsWith(s, sub) THEN RemoveAll(SubSeq(s, Len(sub) + 1, Len(s)), sub)
    ELSE SubSeq(s, 1, 1) \o RemoveAll(SubSeq(s, 2, Len(s)), sub)

DefaultClassification ==
    [category |-> "", intent |-> "", key_terms |-> "", is_preference |-> "no",
     preference_type |-> "none", preference_value |-> "none",
     is_generic_food_question |-> "none"]

\* One pass of the for loop of classify_query: the if/elif chain on a line
ClassifyLine(c, line) ==
    CASE StartsWith(line, "Category:") ->
            [c EXCEPT !.category = Strip(RemoveAll(line, "Category:"))]
      [] StartsWith(line, "Intent:") ->
            [c EXCEPT !.intent = Strip(RemoveAll(line, "Intent:"))]
      [] StartsWith(line, "Key Terms:") ->
            [c EXCEPT !.key_terms = Strip(RemoveAll(line, "Key Terms:"))]
      [] StartsWith(line, "Is Preference:") ->
            [c EXCEPT !.is_preference = Lower(Strip(RemoveAll(line, "Is Preference:")))]
      [] StartsWith(line, "Preference Type:") ->
            [c EXCEPT !.preference_type = Lower(Strip(RemoveAll(line, "Preference Type:")))]
      [] StartsWith(line, "Preference Value:") ->
            [c EXCEPT !.preference_value = Lower(Strip(RemoveAll(line, "Preference Value:")))]
      [] StartsWith(line, "Is Generic Food Question:") ->
            [c EXCEPT !.is_generic_food_question =
                 Lower(Strip(RemoveAll(line, "Is Generic Food Question:")))]
      [] OTHER -> c

RECURSIVE ClassifyLines(_, _)
ClassifyLines(lines, c) ==
    IF lines = <<>> THEN c ELSE ClassifyLines(Tail(lines), ClassifyLine(c, Head(lines)))

\* classify_query, given the completion's response.content
\* classify_query splitting the response without stripping it first
classify_query_Unstripped(content) ==
    ClassifyLines(Split(content, "\n"), DefaultClassification)

classify_query(content) == ClassifyLines(Split(Strip(content), "\n"), DefaultClassification)

\* classify_query on each answer of the completion service, computed once
Classifications == [r \in ClassifierResponses |-> classify_query(r)]

-----------------------------------------------------------------------------
(* get_recommendations *)

PlanPhrases == {"add to plan", "add it to", "save this", "adding it"}

\* any(phrase in query.lower() for phrase in [...])
HasPlanPhrase_CaseSensitive(query) == \E phrase \in {"add to plan", "add it to", "save this", "adding it"} : Contains(query, phrase)

HasPlanPhrase(query) == \E phrase \in PlanPhrases : Contains(Lower(query), phrase)

\* input().strip().lower() of main on each line, computed once
Typed == [raw \in Inputs |-> Lower(Strip(raw))]

\* HasPlanPhrase on each text a method may be handed, computed once
PlanPhrased == [q \in Queries \cup {Typed[raw] : raw \in Inputs} |-> HasPlanPhrase(q)]

\* update_preference without the call of save_preferences
update_preference_Unsaved(s, preference_type, value) ==
    {[s |-> [s EXCEPT !.preferences[preference_type] = Some(value)], ok |-> TRUE]}

\* update_preference: the outcomes are those of save_preferences
update_preference(s, preference_type, value) ==
    save_preferences([s EXCEPT !.preferences[preference_type] = Some(value)])

AckMsg(value) ==
    "I've noted that you like " \o value \o
    " food. I'll remember this for future recommendations!"

NoMatchMsg ==
    "I couldn't find any matching venues for that request. Could you try rephrasing or being more specific?"

\* The relevance floor of get_recommendations, 0.7, in tenths
MinRelevance == 7

\* k of similarity_search_with_relevance_scores
TopK == 4

\* similarity_search_with_relevance_scores(query, k): the best k of a ranking
SearchResults == { SubSeq(r, 1, IF Len(r) < TopK THEN Len(r) ELSE TopK) : r \in Rankings }

RECURSIVE Join(_, _)
\* sep.join(parts)
Join(parts, sep) ==
    IF parts = <<>> THEN ""
    ELSE IF Len(parts) = 1 THEN parts[1]
    ELSE parts[1] \o sep \o Join(Tail(parts), sep)

\* json.dumps of a preferences dict
JsonPreferences(p) ==
    "{\"cuisine\": "
    \o (IF p.cuisine = None THEN "null" ELSE "\"" \o p.cuisine[1] \o "\"") \o "}"

FoodCategories == {"Food and Dining", "Recommendations"}

\* enhanced_query without the test of the generic flag
EnhancedQuery_AnyFoodQuestion(s, query, c) ==
    IF c.category \in FoodCategories /\ Truthy(s.preferences.cuisine)
    THEN query \o " " \o s.preferences.cuisine[1] \o " restaurant"
    ELSE query

\* enhanced_query of get_recommendations
EnhancedQuery(s, query, c) ==
    IF /\ c.category \in FoodCategories
       /\ Truthy(s.preferences.cuisine)
       /\ c.is_generic_food_question = "yes"
    THEN query \o " " \o s.preferences.cuisine[1] \o " restaurant"
    ELSE query

\* preferences_to_pass being the stored preferences in every case
PreferencesToPass_Stored(s, c) == s.preferences

\* preferences_to_pass of get_recommendations
PreferencesToPass(s, c) ==
    IF c.category \in FoodCategories /\ c.is_generic_food_question = "yes"
    THEN s.preferences ELSE [cuisine |-> None]

\* The relevance scores of a retrieval result, as text
Scores(results) == [i \in 1..Len(results) |-> ToString(results[i].score)]

\* The join of get_recommendations on each retrieval result, computed once
Contexts ==
    [results \in SearchResults |->
        Join([i \in 1..Len(results) |-> results[i].page_content], "\n\n---\n\n")]

\* Recommend storing the joined passages before it looks at the scores
Recommend_StoresFirst(s, query, c, results, log) ==
    LET s1 == [s EXCEPT !.last_context = Some(Contexts[results])]
    IN IF Len(results) = 0 \/ results[1].score < MinRelevance
       THEN {Return(s1, NoMatchMsg, log)}
       ELSE {Raise(s1, log)}
            \cup {Return([s1 EXCEPT !.last_response = Some(a)], a, log) : a \in AnswerTexts}

\* get_recommendations from the point where retrieval has returned results
Recommend(s, query, c, results, log) ==
    IF Len(results) = 0 \/ results[1].score < MinRelevance
    THEN {Return(s, NoMatchMsg, log)}
    ELSE LET context == Contexts[results]
             s1 == [s EXCEPT !.last_context = Some(context)]
             log1 == Append(log, Event("complete",
                         <<"recommend", context, query, c.category, c.intent,
                           c.key_terms, JsonPreferences(PreferencesToPass(s, c))>>))
         IN {Raise(s1, log1)}
            \cup {Return([s1 EXCEPT !.last_response = Some(a)], a, log1) : a \in AnswerTexts}

\* Classified without the preference branch
Classified_Searches(s, query, c, log) ==
    LET s1 == [s EXCEPT !.last_classification = Some(c)]
        log1 == Append(log, Event("search", <<EnhancedQuery(s1, query, c)>>))
    IN {Raise(s1, log1)}
       \cup UNION { Recommend(s1, query, c, results,
                              Append(log1, Event("found", Scores(results))))
                    : results \in SearchResults }

\* Classified without the store of the classification
Classified_Unrecorded(s, query, c, log) ==
    IF c.is_preference = "yes" /\ c.preference_type = "cuisine"
    THEN { IF w.ok
           THEN Return(w.s, AckMsg(c.preference_value),
                       Append(log, Event("save_preferences", <<"ok">>)))
           ELSE Raise(w.s, Append(log, Event("save_preferences", <<"OSError">>)))
           : w \in update_preference(s, "cuisine", c.preference_value) }
    ELSE LET log1 == Append(log, Event("search", <<EnhancedQuery(s, query, c)>>))
         IN {Raise(s, log1)}
            \cup UNION { Recommend(s, query, c, results,
                                   Append(log1, Event("found", Scores(results))))
                         : results \in SearchResults }

\* get_recommendations from the point where classify_query has returned c
Classified(s, query, c, log) ==
    LET s1 == [s EXCEPT !.last_classification = Some(c)]
    IN IF c.is_preference = "yes" /\ c.preference_type = "cuisine"
       THEN { IF w.ok
              THEN Return(w.s, AckMsg(c.preference_value),
                          Append(log, Event("save_preferences", <<"ok">>)))
              ELSE Raise(w.s, Append(log, Event("save_preferences", <<"OSError">>)))
              : w \in update_preference(s1, "cuisine", c.preference_value) }
       ELSE LET log1 == Append(log, Event("search", <<EnhancedQuery(s1, query, c)>>))
            IN {Raise(s1, log1)}
               \cup UNION { Recommend(s1, query, c, results,
                                      Append(log1, Event("found", Scores(results))))
                            : results \in SearchResults }

get_recommendations(s, query) ==
    IF PlanPhrased[query] THEN add_to_plan(s, <<>>)
    ELSE LET log == <<Event("classify", <<query>>)>>
         IN {Raise(s, log)}
            \cup UNION { Classified(s, query, Classifications[r],
                                    Append(log, Event("classified", <<r>>)))
                         : r \in ClassifierResponses }

-----------------------------------------------------------------------------
(* handle_follow_up and is_follow_up_question *)

NoPreviousMsg ==
    "I don't have any previous recommendations to reference. Please ask about a specific place first."

\* handle_follow_up keeping its answer as last_response
handle_follow_up_Stores(s, question) ==
    IF PlanPhrased[question] THEN add_to_plan(s, <<>>)
    ELSE IF ~Truthy(s.last_response) \/ ~Truthy(s.last_context)
    THEN {Return(s, NoPreviousMsg, <<>>)}
    ELSE LET log == <<Event("classify", <<question>>)>>
         IN {Raise(s, log)}
            \cup UNION {
                LET c == Classifications[r]
                    log1 == Append(log, Event("complete",
                                <<"follow_up", s.last_context[1], s.last_response[1],
                                  question, c.category, c.intent,
                                  JsonPreferences(s.preferences)>>))
                IN {Raise(s, log1)}
                   \cup {Return([s EXCEPT !.last_response = Some(a)], a, log1)
                         : a \in AnswerTexts}
                : r \in ClassifierResponses }

handle_follow_up(s, question) ==
    IF PlanPhrased[question] THEN add_to_plan(s, <<>>)
    ELSE IF ~Truthy(s.last_response) \/ ~Truthy(s.last_context)
    THEN {Return(s, NoPreviousMsg, <<>>)}
    ELSE LET log == <<Event("classify", <<question>>)>>
         IN {Raise(s, log)}
            \cup UNION {
                LET c == Classifications[r]
                    log1 == Append(log, Event("complete",
                                <<"follow_up", s.last_context[1], s.last_response[1],
                                  question, c.category, c.intent,
                                  JsonPreferences(s.preferences)>>))
                IN {Raise(s, log1)} \cup {Return(s, a, log1) : a \in AnswerTexts}
                : r \in ClassifierResponses }

FollowUpCategories == {"Location/Navigation", "Price/Budget Inquiry", "Details/Information"}

\* The return expression of is_follow_up_question, asking for a
\* last_response that is not empty
FollowUpAnswer_Truthy(s, c) ==
    c.category \in FollowUpCategories /\ Truthy(s.last_response)

\* The return expression of is_follow_up_question for the classification c
FollowUpAnswer(s, c) ==
    c.category \in FollowUpCategories /\ s.last_response # None

is_follow_up_question(s, question) ==
    IF PlanPhrased[question] THEN {Return(s, TRUE, <<>>)}
    ELSE LET log == <<Event("classify", <<question>>)>>
         IN {Raise(s, log)}
            \cup { Return(s, FollowUpAnswer(s, Classifications[r]), log)
                   : r \in ClassifierResponses }

-----------------------------------------------------------------------------
(* get_plan_summary and generate_day_plan *)

\* venue_summary: the four fields both methods project a saved venue to
VenueSummary(venue) ==
    <<Get(venue, "name", "Unknown Venue"), Get(venue, "type", "Unknown Type"),
      Get(venue, "location", "Location not specified"),
      Get(venue, "budget", "Budget not specified")>>

RECURSIVE VenuesForSummary(_)
\* venues_for_summary / venues_for_planning, flattened in plan order
VenuesForSummary(venues) ==
    IF venues = <<>> THEN <<>>
    ELSE VenueSummary(Head(venues)) \o VenuesForSummary(Tail(venues))

EmptyPlanMsg == "Your NYC plan is empty! Ask me about places you'd like to visit."

SummaryFailedMsg(n) ==
    "Sorry, I couldn't generate your plan summary. You have " \o ToString(n)
    \o " venues saved."

\* get_plan_summary without its try/except
get_plan_summary_Propagates(s) ==
    IF s.plan.venues = <<>> THEN {Return(s, EmptyPlanMsg, <<>>)}
    ELSE LET log == <<Event("complete", <<"summary">> \o VenuesForSummary(s.plan.venues))>>
         IN {Raise(s, log)} \cup {Return(s, a, log) : a \in AnswerTexts}

get_plan_summary(s) ==
    IF s.plan.venues = <<>> THEN {Return(s, EmptyPlanMsg, <<>>)}
    ELSE LET log == <<Event("complete", <<"summary">> \o VenuesForSummary(s.plan.venues))>>
         IN {Return(s, SummaryFailedMsg(Len(s.plan.venues)), log)}
            \cup {Return(s, a, log) : a \in AnswerTexts}

NoVenuesMsg == "No venues saved in your plan!"

\* The banner of generate_day_plan (its leading emoji written as a word)
DayPlanBanner == "\n(liberty) Here's a suggested day plan with your saved places:\n\n"

DayPlanFailedMsg == "Sorry, I couldn't generate a day plan with your saved venues."

generate_day_plan(s) ==
    IF s.plan.venues = <<>> THEN {Return(s, NoVenuesMsg, <<>>)}
    ELSE LET log == <<Event("complete", <<"day_plan">> \o VenuesForSummary(s.plan.venues))>>
         IN {Return(s, DayPlanFailedMsg, log)}
            \cup {Return(s, DayPlanBanner \o a, log) : a \in AnswerTexts}

-----------------------------------------------------------------------------
(* main: one pass of the input loop *)

ExitWords == {"quit", "exit", "bye", "done"}

\* The outcome o of the method main dispatched to: via names the method,
\* on says whether the loop goes on (it does not after break or an
\* exception, which nothing in main catches).
Dispatched(via, o) == [o |-> o, via |-> via, on |-> ~o.raised]

\* The exit branch: the summary and the day plan of a plan that is not empty
Farewell(s) ==
    IF s.plan.venues # <<>>
    THEN UNION { IF a.raised THEN {Dispatched("get_plan_summary", a)}
                 ELSE { [Dispatched("generate_day_plan", b) EXCEPT !.on = FALSE]
                        : b \in generate_day_plan(a.s) }
                 : a \in get_plan_summary(s) }
    ELSE {[o |-> Return(s, "", <<>>), via |-> "exit", on |-> FALSE]}

\* The last branch: is_follow_up_question chooses the method that answers
Routed(s, user_input) ==
    UNION { IF f.raised THEN {Dispatched("is_follow_up_question", f)}
            ELSE IF f.ret[1]
            THEN {Dispatched("handle_follow_up", [o EXCEPT !.log = f.log \o @])
                  : o \in handle_follow_up(f.s, user_input)}
            ELSE {Dispatched("get_recommendations", [o EXCEPT !.log = f.log \o @])
                  : o \in get_recommendations(f.s, user_input)}
            : f \in is_follow_up_question(s, user_input) }

\* The body of the while loop for the line raw
main(s, raw) ==
    LET user_input == Typed[raw]
    IN IF user_input \in ExitWords THEN Farewell(s)
       ELSE IF user_input = "show plan"
       THEN {Dispatched("get_plan_summary", o) : o \in get_plan_summary(s)}
       ELSE IF user_input = "add to plan"
       THEN {Dispatched("add_to_plan", o) : o \in add_to_plan(s, <<>>)}
       ELSE Routed(s, user_input)

-----------------------------------------------------------------------------
(* The state machine: the program as main runs it *)

\* The object as the methods see it
Self ==
    [last_response |-> last_response, last_context |-> last_context,
     last_classification |-> last_classification, plan |-> plan,
     preferences |-> preferences, prefs_file |-> prefs_file, plan_file |-> plan_file]

\* The object and the files become those of s.
Becomes(s) ==
    /\ last_response' = s.last_response
    /\ last_context' = s.last_context
    /\ last_classification' = s.last_classification
    /\ plan' = s.plan
    /\ preferences' = s.preferences
    /\ prefs_file' = s.prefs_file
    /\ plan_file' = s.plan_file

\* The files a first run may find
InitialPrefsFiles == { MissingFile, CorruptFile }

InitialPlanFiles == { MissingFile, CorruptFile, OtherJsonFile }

\* The record of a constructor call that found the files pf and lf
Constructed(pf, lf, g) ==
    [op |-> "__init__", raised |-> ~g.ok, ret |-> None, found |-> <<pf.kind, lf.kind>>]

\* guide = NYCGuide() of the first run
Init ==
    \E pf \in InitialPrefsFiles, lf \in InitialPlanFiles :
        \E g \in NewGuide(pf, lf) :
            /\ last_response = g.s.last_response
            /\ last_context = g.s.last_context
            /\ last_classification = g.s.last_classification
            /\ plan = g.s.plan
            /\ preferences = g.s.preferences
            /\ prefs_file = g.s.prefs_file
            /\ plan_file = g.s.plan_file
            /\ alive = g.ok
            /\ call = Constructed(pf, lf, g)
            /\ peer = None
            /\ confirmed = {}

\* The program is started again on the files as they are.
Restart ==
    \E g \in NewGuide(prefs_file, plan_file) :
        /\ Becomes(g.s)
        /\ alive' = g.ok
        /\ call' = Constructed(prefs_file, plan_file, g)
        /\ UNCHANGED <<peer, confirmed>>

\* The loop of main has answered a line with the outcome m; call records
\* the method that answered, whether it raised and what it returned.
Answered(m) ==
    /\ Becomes(m.o.s)
    /\ call' = [op |-> m.via, raised |-> m.o.raised, ret |-> m.o.ret, found |-> <<>>]
    /\ alive' = m.on
    /\ UNCHANGED <<peer, confirmed>>

\* quit, exit, bye or done
Quit ==
    /\ alive
    /\ \E raw \in {x \in Inputs : Typed[x] \in ExitWords} :
          \E m \in main(Self, raw) : Answered(m)

\* show plan
ShowPlan ==
    /\ alive
    /\ \E raw \in {x \in Inputs : Typed[x] = "show plan"} :
          \E m \in main(Self, raw) : Answered(m)

\* add to plan
AddToPlan ==
    /\ alive
    /\ \E raw \in {x \in Inputs : Typed[x] = "add to plan"} :
          \E m \in main(Self, raw) : Answered(m)

\* Any other line
Ask ==
    /\ alive
    /\ \E raw \in {x \in Inputs : Typed[x] \notin ExitWords \cup {"show plan", "add to plan"}} :
          \E m \in main(Self, raw) : Answered(m)

Next ==
    \/ Restart
    \/ Quit
    \/ ShowPlan
    \/ AddToPlan
    \/ Ask

Spec == Init /\ [][Next]_vars

-----------------------------------------------------------------------------
(* classify_query on its own, over the texts the completion service may send *)

\* The lines a response is made of
ResponseLines ==
    { "Category: Food and Dining",
      " Category: Nightlife",
      "category: shopping",
      "Intent: eat Intent: drink",
      "Key Terms",
      "Is Preference: YES ",
      "Is Preference:",
      "Preference Type:Cuisine",
      "Preference Value: Thai",
      "Is Generic Food Question: Yes" }

\* The most lines a response has
MaxLines == 2

\* response.content: up to MaxLines lines, joined by newlines
ResponseTexts ==
    { Join(lines, "\n") : lines \in UNION { [1..n -> ResponseLines] : n \in 0..MaxLines } }

\* A guide built on no files, before any call of classify_query
InitClassify ==
    \E g \in NewGuide(MissingFile, MissingFile) :
        /\ g.ok
        /\ last_response = g.s.last_response
        /\ last_context = g.s.last_context
        /\ last_classification = g.s.last_classification
        /\ plan = g.s.plan
        /\ preferences = g.s.preferences
        /\ prefs_file = g.s.prefs_file
        /\ plan_file = g.s.plan_file
        /\ alive = TRUE
        /\ call = Constructed(MissingFile, MissingFile, g)
        /\ peer = None
        /\ confirmed = {}

\* classify_query on each of these texts, computed once
TextClassifications == [text \in ResponseTexts |-> classify_query(text)]

\* classify_query(query): the service answers text, or raises; call records
\* the text in found and the classification returned in ret.
Classify ==
    /\ alive
    /\ \/ \E text \in ResponseTexts :
             call' = [op |-> "classify_query", raised |-> FALSE,
                      ret |-> Some(TextClassifications[text]), found |-> <<text>>]
       \/ call' = [op |-> "classify_query", raised |-> TRUE, ret |-> None, found |-> <<>>]
    /\ UNCHANGED <<last_response, last_context, last_classification, plan,
                   preferences, prefs_file, plan_file, alive, peer, confirmed>>

NextClassify == Classify

SpecClassify == InitClassify /\ [][NextClassify]_vars

-----------------------------------------------------------------------------
(* Two instances of the program on the same files *)

\* The fields of an instance, without the files
Memory(s) ==
    [last_response |-> s.last_response, last_context |-> s.last_context,
     last_classification |-> s.last_classification, plan |-> s.plan,
     preferences |-> s.preferences]

\* The second instance as its methods see it
PeerSelf ==
    [last_response |-> peer.last_response, last_context |-> peer.last_context,
     last_classification |-> peer.last_classification, plan |-> peer.plan,
     preferences |-> peer.preferences, prefs_file |-> prefs_file, plan_file |-> plan_file]

\* Instance "1" or "2" as its methods see it
Instance(i) == IF i = "1" THEN Self ELSE PeerSelf

\* Two processes are started, one after the other, where there are no files.
InitShared ==
    \E g1 \in NewGuide(MissingFile, MissingFile) :
        /\ g1.ok
        /\ \E g2 \in NewGuide(g1.s.prefs_file, g1.s.plan_file) :
              /\ g2.ok
              /\ last_response = g1.s.last_response
              /\ last_context = g1.s.last_context
              /\ last_classification = g1.s.last_classification
              /\ plan = g1.s.plan
              /\ preferences = g1.s.preferences
              /\ prefs_file = g2.s.prefs_file
              /\ plan_file = g2.s.plan_file
              /\ alive = TRUE
              /\ call = Constructed(g1.s.prefs_file, g1.s.plan_file, g2)
              /\ peer = Memory(g2.s)
              /\ confirmed = {}

\* The turns of get_recommendations in which the services answer a
\* recommendation: a generic food classification, passages above the floor
\* and the answer "Try Katz."
Recommended(s) ==
    { o \in get_recommendations(s, "Where can I grab a quick bite?") :
        /\ ~o.raised
        /\ o.ret = Some("Try Katz.")
        /\ o.s.last_classification[1].is_generic_food_question = "yes" }

\* Instance i has made the call op with outcome o: its fields and the
\* files become those of o.s, the other instance keeps its fields, and an
\* entry that was confirmed is remembered.
Shared(i, op, o) ==
    /\ IF i = "1"
       THEN Becomes(o.s) /\ UNCHANGED peer
       ELSE /\ peer' = Memory(o.s)
            /\ prefs_file' = o.s.prefs_file
            /\ plan_file' = o.s.plan_file
            /\ UNCHANGED <<last_response, last_context, last_classification, plan,
                           preferences>>
    /\ call' = [op |-> op, raised |-> o.raised, ret |-> o.ret, found |-> <<i>>]
    /\ confirmed' = IF op = "add_to_plan" /\ StartsWith(o.ret[1], "Added ")
                    THEN confirmed \cup {o.s.plan.venues[Len(o.s.plan.venues)]}
                    ELSE confirmed
    /\ UNCHANGED alive

\* The first instance answers a question with a recommendation.
Recommends1 ==
    /\ alive
    /\ \E o \in Recommended(Instance("1")) : Shared("1", "get_recommendations", o)

\* The second instance answers a question with a recommendation.
Recommends2 ==
    /\ alive
    /\ \E o \in Recommended(Instance("2")) : Shared("2", "get_recommendations", o)

\* "add to plan" typed to the first instance
Adds1 ==
    /\ alive
    /\ \E o \in add_to_plan(Instance("1"), <<>>) : Shared("1", "add_to_plan", o)

\* "add to plan" typed to the second instance
Adds2 ==
    /\ alive
    /\ \E o \in add_to_plan(Instance("2"), <<>>) : Shared("2", "add_to_plan", o)

NextShared ==
    \/ Recommends1
    \/ Recommends2
    \/ Adds1
    \/ Adds2

SpecShared == InitShared /\ [][NextShared]_vars

-----------------------------------------------------------------------------
(* Reading the outcome of a call *)

\* The arguments of the events named ev in a log, in order
RECURSIVE Args(_, _)
Args(log, ev) ==
    IF log = <<>> THEN <<>>
    ELSE (IF Head(log).ev = ev THEN <<Head(log).arg>> ELSE <<>>) \o Args(Tail(log), ev)

\* The number of events named ev in a log
Count(log, ev) == Len(Args(log, ev))

\* s.endswith(suffix)
EndsWith(s, suffix) ==
    Len(s) >= Len(suffix) /\ SubSeq(s, Len(s) - Len(suffix) + 1, Len(s)) = suffix

\* Two names are equal when case is ignored
SameName(a, b) == Lower(a) = Lower(b)

\* The name of a saved venue, "" when it has none
NameOf(venue) == Get(venue, "name", "")

\* The queries that hold one of the four plan phrases, whatever their case
PhraseQueries ==
    { q \in Queries :
        \E phrase \in {"add to plan", "add it to", "save this", "adding it"} :
            Contains(Lower(q), phrase) }

-----------------------------------------------------------------------------
(* C1 *)

\* C1: the plan never holds two entries whose names are equal when case is
\* ignored, and an add_to_plan whose extracted name equals, case ignored, the
\* name of a saved entry returns the "already in your plan" message and
\* leaves the length of the plan as it was.
C1_NoDuplicateNames ==
    /\ \A i, j \in 1..Len(plan.venues) :
          i # j => ~SameName(NameOf(plan.venues[i]), NameOf(plan.venues[j]))
    /\ alive =>
          \A o \in add_to_plan(Self, <<>>) :
             \A x \in {Args(o.log, "extracted")[k][1] : k \in 1..Count(o.log, "extracted")} :
                (\E i \in 1..Len(plan.venues) :
                     SameName(NameOf(plan.venues[i]), NameOf(VenueInfos[x])))
                => /\ ~o.raised
                   /\ EndsWith(o.ret[1], " is already in your plan!")
                   /\ Len(o.s.plan.venues) = Len(plan.venues)

\* "Katz" is saved and an add_to_plan that extracted "KATZ" was turned down.
C1_Witness ==
    /\ call.op = "add_to_plan"
    /\ call.ret = Some("KATZ is already in your plan!")
    /\ \E i \in 1..Len(plan.venues) : NameOf(plan.venues[i]) = "Katz"
    /\ Len(plan.venues) = 2

-----------------------------------------------------------------------------
(* C2 *)

\* Relevance scores below 0.7, in tenths and as text
BelowFloor == {ToString(i) : i \in 0..6}

\* C2: whenever get_recommendations reaches retrieval and retrieval
\* returns no result, or a best result scored below 0.7, the call returns
\* exactly the "couldn't find any matching venues" message and last_context
\* and last_response are what they were before the call.
C2_RetrievalFallback ==
    alive =>
       \A q \in Queries : \A o \in get_recommendations(Self, q) :
          \A k \in 1..Count(o.log, "found") :
             LET scores == Args(o.log, "found")[k]
             IN (Len(scores) = 0 \/ scores[1] \in BelowFloor)
                => /\ ~o.raised
                   /\ o.ret = Some(NoMatchMsg)
                   /\ o.s.last_context = last_context
                   /\ o.s.last_response = last_response

\* A recommendation had succeeded, and a later get_recommendations found
\* no match: the context and the response of the earlier turn are still there.
C2_Witness ==
    /\ call.op = "get_recommendations"
    /\ call.ret = Some(NoMatchMsg)
    /\ last_context # None
    /\ last_response = Some("Try Katz.")

-----------------------------------------------------------------------------
(* C3 *)

\* C3: "add this to my plan", handled while last_context is absent, returns
\* the "No venue to add to plan" message and leaves the plan unchanged.
C3_ScenarioC ==
    (alive /\ last_context = None) =>
       /\ \A o \in get_recommendations(Self, "add this to my plan") :
             ~o.raised => o.ret = Some(NoVenueMsg) /\ o.s.plan = plan
       /\ \A m \in Routed(Self, "add this to my plan") :
             ~m.o.raised => m.o.ret = Some(NoVenueMsg) /\ m.o.s.plan = plan

-----------------------------------------------------------------------------
(* C4 *)

\* C4: when extraction fails or another step of add_to_plan raises, the
\* write of the plan file included, the call returns the apology, no
\* exception leaves it, and the plan is as before, in memory and in the file.
C4_FailedAddLeavesPlan ==
    alive =>
       \A o \in add_to_plan(Self, <<>>) :
          /\ ~o.raised
          /\ o.ret = Some(AddApologyMsg) => o.s.plan = plan /\ o.s.plan_file = plan_file

-----------------------------------------------------------------------------
(* C5 *)

\* The values update_preference is called with
CuisineValues == {"mexican", "thai", ""}

\* The preferences a fresh instance loads from the file of s
Reloaded(s) ==
    { l.s.preferences : l \in load_preferences([s EXCEPT !.preferences = DefaultPreferences]) }

\* C5: after update_preference("cuisine", v1) and then
\* update_preference("cuisine", v2) have returned, the stored cuisine is v2,
\* and the preferences a fresh instance loads from the file hold v2 as well.
C5_LastUpdateWins ==
    alive => \A v1, v2 \in CuisineValues :
       \A w1 \in update_preference(Self, "cuisine", v1) :
          w1.ok =>
             /\ w1.s.preferences.cuisine = Some(v1)
             /\ Reloaded(w1.s) = {[cuisine |-> Some(v1)]}
             /\ \A w2 \in update_preference(w1.s, "cuisine", v2) :
                   w2.ok =>
                      /\ w2.s.preferences.cuisine = Some(v2)
                      /\ Reloaded(w2.s) = {[cuisine |-> Some(v2)]}

\* A later run has loaded the cuisine an earlier run stored.
C5_Witness ==
    /\ call.op = "__init__"
    /\ call.found[1] = "json"
    /\ ~call.raised
    /\ preferences.cuisine = Some("mexican")

-----------------------------------------------------------------------------
(* C6 *)

\* The kinds of file that do not hold what the program wrote
Unusable == {"missing", "corrupt", "other"}

\* C6: right after a startup that found the preferences file missing or
\* corrupt, the preferences are {cuisine: null} and the file holds them;
\* right after a startup that found the plan file missing or corrupt, the
\* plan is empty and the file holds the empty plan.
C6_ResetIsWrittenBack ==
    (call.op = "__init__" /\ ~call.raised) =>
       /\ call.found[1] \in Unusable =>
             preferences = DefaultPreferences /\ prefs_file = DumpPreferences(preferences)
       /\ call.found[2] \in Unusable =>
             plan = EmptyPlan /\ plan_file = DumpPlan(plan)

-----------------------------------------------------------------------------
(* C7 *)

\* C7: in an "add it to my plan" turn taken while last_context is set, if
\* extraction yields a name no saved entry has and the plan file is
\* written, then extraction ran on last_context, the plan is the old plan
\* followed by one new entry whose context is last_context and whose
\* added_at is set, the file holds the new plan, and the message returned
\* contains the extracted name.
C7_ScenarioD ==
    (alive /\ Truthy(last_context)) =>
       \A m \in main(Self, "Add it to my plan") :
          \A k \in 1..Count(m.o.log, "extracted") :
             LET info == VenueInfos[Args(m.o.log, "extracted")[k][1]]
                 n == Len(plan.venues)
             IN ( /\ "name" \in DOMAIN info
                  /\ \A i \in 1..n : ~SameName(NameOf(plan.venues[i]), info["name"])
                  /\ Args(m.o.log, "save_plan") = << <<"ok">> >> )
                => /\ Args(m.o.log, "extract") = <<last_context>>
                   /\ Len(m.o.s.plan.venues) = n + 1
                   /\ SubSeq(m.o.s.plan.venues, 1, n) = plan.venues
                   /\ m.o.s.plan.venues[n + 1]["context"] = last_context[1]
                   /\ "added_at" \in DOMAIN m.o.s.plan.venues[n + 1]
                   /\ m.o.s.plan.venues[n + 1]["added_at"] \in Times
                   /\ m.o.s.plan_file = DumpPlan(m.o.s.plan)
                   /\ ~m.o.raised
                   /\ Contains(m.o.ret[1], info["name"])

\* "add it to my plan" has added Katz as the second entry of the plan, with
\* the passages of the last recommendation as its context.
C7_Witness ==
    /\ call.op = "handle_follow_up"
    /\ call.ret = Some("Added Katz to your NYC plan!")
    /\ Len(plan.venues) = 2
    /\ Some(plan.venues[2]["context"]) = last_context
    /\ plan_file = DumpPlan(plan)

-----------------------------------------------------------------------------
(* C8 *)

\* C8: for a query that holds one of the four plan phrases, whatever its
\* case, get_recommendations and handle_follow_up do what add_to_plan does
\* on the current state, is_follow_up_question returns true without a call
\* of the classifier, and the turn main routes calls add_to_plan once and
\* the classifier never.
C8_PlanPhraseShortCircuits ==
    alive =>
       \A q \in PhraseQueries :
          /\ get_recommendations(Self, q) = add_to_plan(Self, <<>>)
          /\ handle_follow_up(Self, q) = add_to_plan(Self, <<>>)
          /\ is_follow_up_question(Self, q) = {Return(Self, TRUE, <<>>)}
          /\ \A m \in Routed(Self, q) :
                /\ m.via = "handle_follow_up"
                /\ m.o \in add_to_plan(Self, <<>>)
                /\ Count(m.o.log, "classify") = 0
                /\ Count(m.o.log, "add_to_plan") = 1

\* A typed plan phrase was answered by handle_follow_up with the message of
\* add_to_plan for an empty last_context.
C8_Witness ==
    /\ call.op = "handle_follow_up"
    /\ call.ret = Some(NoVenueMsg)
    /\ last_context = None

-----------------------------------------------------------------------------
(* C9 *)

\* C9: when get_recommendations returns after a classification with
\* is_preference = yes and preference_type = cuisine, the stored cuisine is
\* preference_value, the preferences file holds it, the message returned
\* contains it, no retrieval was made, and last_context and last_response are
\* as before; for "I like Mexican food" classified as Mexican the value
\* stored and acknowledged is "mexican".
C9_PreferenceTurn ==
    alive =>
       \A q \in Queries \ PhraseQueries : \A o \in get_recommendations(Self, q) :
          \A k \in 1..Count(o.log, "classified") :
             LET r == Args(o.log, "classified")[k][1]
                 c == Classifications[r]
             IN (c.is_preference = "yes" /\ c.preference_type = "cuisine" /\ ~o.raised)
                => /\ o.s.preferences.cuisine = Some(c.preference_value)
                   /\ o.s.prefs_file = DumpPreferences(o.s.preferences)
                   /\ Contains(o.ret[1], c.preference_value)
                   /\ Count(o.log, "search") = 0
                   /\ o.s.last_context = last_context
                   /\ o.s.last_response = last_response
                   /\ (q = "I like Mexican food" /\ Contains(r, "Preference Value: Mexican"))
                      => /\ o.s.preferences.cuisine = Some("mexican")
                         /\ Contains(o.ret[1], "mexican")

\* After a recommendation, a preference turn was acknowledged: the cuisine
\* is stored and saved, and the recommendation's context and response remain.
C9_Witness ==
    /\ call.op = "get_recommendations"
    /\ call.ret = Some(AckMsg("mexican"))
    /\ preferences.cuisine = Some("mexican")
    /\ prefs_file = DumpPreferences(preferences)
    /\ last_context # None
    /\ last_response = Some("Try Katz.")

-----------------------------------------------------------------------------
(* C10 *)

\* The context and the previous response handed to the follow-up prompt
FollowUpBasis(o) ==
    { <<Some(a[2]), Some(a[3])>> :
        a \in { Args(o.log, "complete")[k] : k \in 1..Count(o.log, "complete") } }

\* C10: handle_follow_up leaves last_context and last_response as they
\* were, whether it answers, rejects the question for want of a previous
\* response or context, or raises; what it hands to the follow-up prompt
\* are the last_context and last_response of before, so that the next
\* follow-up finds them again.
C10_FollowUpKeepsSession ==
    alive =>
       \A q \in Queries :
          \A o \in handle_follow_up(Self, q) :
             /\ o.s.last_context = last_context
             /\ o.s.last_response = last_response
             /\ FollowUpBasis(o) \subseteq {<<last_context, last_response>>}

\* A follow-up was answered, and the context and the response of the
\* recommendation before it are still the stored ones.
C10_Witness ==
    /\ call.op = "handle_follow_up"
    /\ call.ret = Some("")
    /\ last_response = Some("Try Katz.")
    /\ last_context # None

-----------------------------------------------------------------------------
(* C11 *)

\* C11: for a query with no plan phrase, is_follow_up_question returns
\* true exactly when the category classify_query parsed is
\* Location/Navigation, Price/Budget Inquiry or Details/Information and
\* last_response is not None; while last_response is None it returns false
\* whatever the category.
C11_FollowUpTest ==
    alive =>
       \A q \in Queries \ PhraseQueries :
          LET Expected(r) ==
                 /\ Classifications[r].category \in
                       {"Location/Navigation", "Price/Budget Inquiry", "Details/Information"}
                 /\ last_response # None
              returned == {o \in is_follow_up_question(Self, q) : ~o.raised}
          IN /\ {o.ret : o \in returned} = {Some(Expected(r)) : r \in ClassifierResponses}
             /\ \A r \in ClassifierResponses :
                   FollowUpAnswer(Self, Classifications[r]) <=> Expected(r)
             /\ \A o \in returned : o.s = Self /\ Args(o.log, "classify") = << <<q>> >>
             /\ last_response = None => \A o \in returned : ~o.ret[1]

\* A question classified Details/Information was taken for a follow-up
\* although the response of the last recommendation was the empty text.
C11_Witness ==
    /\ call.op = "handle_follow_up"
    /\ call.ret = Some(NoPreviousMsg)
    /\ last_response = Some("")
    /\ last_classification # None

-----------------------------------------------------------------------------
(* C12 *)

\* The line prefix of each Classification field
KeyOf ==
    [category |-> "Category:", intent |-> "Intent:", key_terms |-> "Key Terms:",
     is_preference |-> "Is Preference:", preference_type |-> "Preference Type:",
     preference_value |-> "Preference Value:",
     is_generic_food_question |-> "Is Generic Food Question:"]

\* The fixed default of each Classification field
DefaultOf ==
    [category |-> "", intent |-> "", key_terms |-> "", is_preference |-> "no",
     preference_type |-> "none", preference_value |-> "none",
     is_generic_food_question |-> "none"]

\* The fields whose value is kept as written; the others are lower-cased
AsWritten == {"category", "intent", "key_terms"}

\* The field has the value a response text gives it: its default when no
\* line of the stripped text starts with its key, otherwise what follows
\* the key on the last such line, stripped (when the key occurs once there).
FieldFrom(text, field, value) ==
    LET lines == Split(Strip(text), "\n")
        key == KeyOf[field]
        hits == {i \in 1..Len(lines) : StartsWith(lines[i], key)}
    IN IF hits = {} THEN value = DefaultOf[field]
       ELSE LET line == lines[CHOOSE i \in hits : \A j \in hits : j <= i]
                rest == Strip(SubSeq(line, Len(key) + 1, Len(line)))
            IN Contains(rest, key)
               \/ value = (IF field \in AsWritten THEN rest ELSE Lower(rest))

\* C12: whatever text the completion service answers, classify_query
\* returns, without raising, a record holding all seven Classification
\* fields, each with the value parsed from its line or with its default.
C12_ClassifyIsTotal ==
    (call.op = "classify_query" /\ call.found # <<>>) =>
       /\ ~call.raised
       /\ DOMAIN call.ret[1] = DOMAIN KeyOf
       /\ \A field \in DOMAIN KeyOf : FieldFrom(call.found[1], field, call.ret[1][field])

\* A response of one line without a colon and one line with an empty
\* value: is_preference is parsed to "", every other field has its default.
C12_Witness ==
    /\ call.op = "classify_query"
    /\ call.found = <<"Key Terms\nIs Preference:">>
    /\ call.ret[1] = [DefaultOf EXCEPT !.is_preference = ""]

-----------------------------------------------------------------------------
(* C13 *)

\* Classifications that reach retrieval: each category with the generic
\* flag set and not set
Retrieving ==
    { classify_query("Category: " \o category \o "\nIs Generic Food Question: " \o flag)
      : category \in {"Food and Dining", "Recommendations", "Details/Information"},
        flag \in {"Yes", "no"} }
    \cup { Classifications[r] : r \in ClassifierResponses }

\* The text handed to retrieval from the present state, for each
\* classification: the query, augmented or not
C13_Sent ==
    alive =>
       \A c \in Retrieving :
          \A o \in Classified(Self, "Where can I grab a quick bite?", c, <<>>) :
             \A k \in 1..Count(o.log, "search") :
                LET sent == Args(o.log, "search")[k][1]
                    augment == /\ c.category \in {"Food and Dining", "Recommendations"}
                               /\ preferences.cuisine \notin {None, Some("")}
                               /\ c.is_generic_food_question = "yes"
                IN /\ augment =>
                         sent = "Where can I grab a quick bite? " \o preferences.cuisine[1]
                                \o " restaurant"
                   /\ ~augment => sent = "Where can I grab a quick bite?"
                   /\ (augment /\ preferences.cuisine = Some("mexican")) =>
                         sent = "Where can I grab a quick bite? mexican restaurant"

\* C13: the text get_recommendations hands to retrieval is the query
\* followed by " <cuisine> restaurant" when the category is Food and Dining
\* or Recommendations, a cuisine is stored and the question is flagged
\* generic, and the query itself in every other case; "Where can I grab a
\* quick bite?" with "mexican" stored and a generic food classification is
\* searched as "Where can I grab a quick bite? mexican restaurant".
C13_QueryAugmentation == []C13_Sent

\* With "mexican" stored, a turn classified as a generic food question has
\* searched and returned a recommendation.
C13_Witness ==
    /\ call.op = "get_recommendations"
    /\ call.ret = Some("Try Katz.")
    /\ preferences.cuisine = Some("mexican")
    /\ last_classification # None
    /\ last_classification[1].category = "Food and Dining"
    /\ last_classification[1].is_generic_food_question = "yes"

-----------------------------------------------------------------------------
(* C14 *)

\* C14: get_plan_summary and generate_day_plan raise nothing and leave
\* the object, the plan included, as it was. On an empty plan each returns
\* its fixed message and the completion service is not called. Otherwise
\* the service is called once; when it fails the summary returns the
\* message with the number of saved venues and the day plan the fixed
\* apology, and when it answers the summary returns the answer and the day
\* plan the answer after the banner.
C14_SummaryAndDayPlan ==
    alive =>
       LET n == Len(plan.venues)
           failed == "Sorry, I couldn't generate your plan summary. You have "
                     \o ToString(n) \o " venues saved."
           apology == "Sorry, I couldn't generate a day plan with your saved venues."
           calls == IF n = 0 THEN 0 ELSE 1
       IN /\ \A o \in get_plan_summary(Self) \cup generate_day_plan(Self) :
                ~o.raised /\ o.s = Self /\ Len(o.log) = calls
          /\ {o.ret[1] : o \in get_plan_summary(Self)} =
                IF n = 0
                THEN {"Your NYC plan is empty! Ask me about places you'd like to visit."}
                ELSE {failed} \cup AnswerTexts
          /\ {o.ret[1] : o \in generate_day_plan(Self)} =
                IF n = 0 THEN {"No venues saved in your plan!"}
                ELSE {apology} \cup {DayPlanBanner \o a : a \in AnswerTexts}
          /\ \A o \in generate_day_plan(Self) :
                n > 0 => o.ret[1] = apology \/ StartsWith(o.ret[1], DayPlanBanner)

\* "show plan" on a plan of two venues while the completion service fails
C14_Witness ==
    /\ call.op = "get_plan_summary"
    /\ call.ret = Some("Sorry, I couldn't generate your plan summary. You have 2 venues saved.")
    /\ Len(plan.venues) = 2

-----------------------------------------------------------------------------
(* C15 *)

\* C15: a get_recommendations turn that ends in the no-match message or in
\* the acknowledgment of a preference leaves last_classification, and with
\* it last_context and last_response, as they were before the call.
C15_ClassificationOnlyOnSuccess ==
    alive =>
       \A q \in Queries \ PhraseQueries : \A o \in get_recommendations(Self, q) :
          (~o.raised /\ (o.ret = Some(NoMatchMsg) \/ Count(o.log, "save_preferences") = 1))
          => /\ o.s.last_classification = last_classification
             /\ o.s.last_context = last_context
             /\ o.s.last_response = last_response

-----------------------------------------------------------------------------
(* C16 *)

\* C16: whenever an operation has completed (the startup load, an
\* add_to_plan, any turn), the plan file holds exactly the plan in memory.
C16_FileHoldsPlan ==
    (alive /\ ~call.raised) => plan_file = DumpPlan(plan)

-----------------------------------------------------------------------------
(* C17 *)

\* venues is the start of venues2
IsPrefix(venues, venues2) ==
    Len(venues) <= Len(venues2) /\ SubSeq(venues2, 1, Len(venues)) = venues

\* C17: in every turn the plan before is a prefix of the plan after, and
\* the plan changes only in an add_to_plan that succeeds, which returns the
\* "Added ..." confirmation and extends the plan by exactly one entry.
C17_AppendOnly ==
    [][ call'.op # "__init__" =>
           /\ IsPrefix(plan.venues, plan'.venues)
           /\ plan' # plan =>
                 /\ Len(plan'.venues) = Len(plan.venues) + 1
                 /\ call'.ret # None
                 /\ StartsWith(call'.ret[1], "Added ") ]_vars

-----------------------------------------------------------------------------
(* C18 *)

\* The passages of a retrieval result, joined in retrieval order
Passages(results) ==
    Join([i \in 1..Len(results) |-> results[i].page_content], "\n\n---\n\n")

\* What holds of the session in every state: it is empty right after the
\* constructor, and a recommendation that succeeds from here stores the
\* passages, the text it returns and the classification of its turn.
C18_Stored ==
    /\ call.op = "__init__" =>
          last_response = None /\ last_context = None /\ last_classification = None
    /\ alive =>
          \A r \in ClassifierResponses, results \in SearchResults :
             LET c == Classifications[r]
                 q == "Where can I grab a quick bite?"
             IN /\ \A o \in Recommend(Self, q, c, results, <<>>) :
                      (~o.raised /\ o.ret # Some(NoMatchMsg))
                      => /\ o.s.last_context = Some(Passages(results))
                         /\ o.s.last_response = o.ret
                /\ \A o \in Classified(Self, q, c, <<>>) :
                      (~o.raised /\ Count(o.log, "complete") = 1)
                      => /\ o.s.last_classification = Some(c)
                         /\ o.s.last_response = o.ret
                         /\ o.s.last_context = Some(Args(o.log, "complete")[1][2])

\* What holds of every turn: a field of the session that is set stays set.
C18_Kept ==
    call'.op # "__init__" =>
       /\ last_response # None => last_response' # None
       /\ last_context # None => last_context' # None
       /\ last_classification # None => last_classification' # None

\* C18: the session is empty at startup; after each recommendation that
\* succeeds last_context is the retrieved passages joined in retrieval
\* order, last_response the text returned and last_classification the
\* classification of that turn; no later turn makes a set field absent.
C18_SessionLifecycle == []C18_Stored /\ [][C18_Kept]_vars

\* A recommendation has succeeded on the four best passages.
C18_Witness ==
    /\ call.op = "get_recommendations"
    /\ call.ret = Some("Try Katz.")
    /\ last_context = Some("P2\n\n---\n\nP1\n\n---\n\nP3\n\n---\n\nP4")
    /\ last_response = Some("Try Katz.")
    /\ last_classification = Some(Classifications[""])

-----------------------------------------------------------------------------
(* C19 *)

\* Instance i has just returned an "Added ..." confirmation.
Confirmed(i) ==
    /\ call.op = "add_to_plan"
    /\ call.found = <<i>>
    /\ call.ret # None
    /\ StartsWith(call.ret[1], "Added ")

\* C19: with two instances on one plan file, an add_to_plan that is
\* confirmed leaves in the file exactly the plan of the instance that made
\* it: the file is rewritten whole from that instance's memory, which holds
\* nothing the other instance added, so an entry the other instance had
\* confirmed is no longer in the file.
C19_LastWriterWins ==
    /\ Confirmed("1") => plan_file = DumpPlan(plan)
    /\ Confirmed("2") => plan_file = DumpPlan(peer.plan)
    /\ \A e \in confirmed :
          \/ \E i \in 1..Len(plan.venues) : plan.venues[i] = e
          \/ \E i \in 1..Len(peer.plan.venues) : peer.plan.venues[i] = e

\* The first instance confirmed an entry, the second instance then
\* confirmed another, and the file, well formed, does not hold the first.
C19_Witness ==
    /\ Confirmed("2")
    /\ plan_file.kind = "json"
    /\ \E e \in confirmed :
          /\ \E i \in 1..Len(plan.venues) : plan.venues[i] = e
          /\ \A i \in 1..Len(plan_file.venues) : plan_file.venues[i] # e

-----------------------------------------------------------------------------
(* C20 *)

\* The cuisines the second run may have stored
OtherCuisines == {None, Some("thai")}

\* Classifications that are not both of a food category and flagged generic
NotGenericFood ==
    { c \in Retrieving :
        ~(c.category \in {"Food and Dining", "Recommendations"}
          /\ c.is_generic_food_question = "yes") }

\* What a call let the services see: the text searched and the inputs of
\* the prompts
Seen(o) ==
    <<Args(o.log, "search"), Args(o.log, "complete")>>

\* The two runs from the present state and from the state with another
\* cuisine stored let the services see the same
C20_SameSeen ==
    alive =>
       \A c \in NotGenericFood :
          LET q == "Where can I grab a quick bite?"
              seen1 == {Seen(o) : o \in Classified(Self, q, c, <<>>)}
          IN /\ \A p \in OtherCuisines :
                   seen1 = {Seen(o) : o \in Classified([Self EXCEPT !.preferences.cuisine = p],
                                                       q, c, <<>>)}
             /\ \A seen \in seen1 :
                   /\ \A k \in 1..Len(seen[1]) : seen[1][k] = <<q>>
                   /\ \A k \in 1..Len(seen[2]) : seen[2][k][7] = "{\"cuisine\": null}"

\* C20: take two runs of get_recommendations that differ in the stored
\* cuisine only, with a classification that is not both of a food category
\* and flagged generic. The texts they send to retrieval are the same, the
\* inputs of the prompts they compose are the same, and the preferences
\* among those inputs are {"cuisine": null}.
C20_PreferenceNonInterference == []C20_SameSeen

\* With "mexican" stored, a question classified Details/Information was
\* answered by get_recommendations.
C20_Witness ==
    /\ call.op = "get_recommendations"
    /\ call.ret = Some("Try Katz.")
    /\ preferences.cuisine = Some("mexican")
    /\ last_classification # None
    /\ last_classification[1].category = "Details/Information"

-----------------------------------------------------------------------------
(* C21 *)

\* Between turns a stored response comes with stored passages
ResponseHasContext == last_response # None => last_context # None

\* C21: between turns, last_response being set implies last_context is set,
\* and therefore no turn that main routes to handle_follow_up is answered
\* with the "I don't have any previous recommendations" message.
C21_NoRejectionInLoop ==
    /\ ResponseHasContext
    /\ ~(call.op = "handle_follow_up" /\ call.ret = Some(NoPreviousMsg))

====
